---- MODULE Spec2Model ----
(***************************************************************************)
(* Model of the interactive exercise grader in its two variants,           *)
(* src/grademe_version1.py and src/grademe_version6.py: the command loop,  *)
(* the build-and-verify pipeline (test_subject, run_and_check), the        *)
(* workspace directories and the output normaliser.                        *)
(*                                                                         *)
(* Text (input lines, file names, level names, program output) is a        *)
(* sequence of one-character strings, so that strip(), lower(), upper(),   *)
(* splitlines(), endswith() and int() are computed as Python computes them.*)
(***************************************************************************)
EXTENDS Integers, Sequences, FiniteSets, TLC

VARIABLES
    env,            \* the variant run, the level directories of TASKS_DIR in listing
                    \* order, and whether SOLUTIONS_DIR exists
    current_level,  \* current_difficulty (v1) / current_level (v6); None when not chosen
    pc,             \* "select" (loop head, no level), "prompt" (input() with a level),
                    \* "done" (loop left by break), "crashed" (uncaught exception)
    solutions,      \* entries of SOLUTIONS_DIR
    build,          \* entries of BUILD_DIR
    traces,         \* files of TRACE_DIR: [name, content]
    clock,          \* wall clock, in ticks
    failures,       \* compile failures and mismatches since TRACE_DIR was last cleared
    event           \* what the last step did

vars == <<env, current_level, pc, solutions, build, traces, clock, failures, event>>

----------------------------------------------------------------------------
(* Bounds of the model *)

\* the clock runs from 0 to MaxClock ticks; every pipeline run takes one tick
MaxClock == 3
\* ticks in one second of the wall clock (strftime has a resolution of a second)
TicksPerSecond == 2
\* most entries the user puts in the staging directory at one time
MaxStaged == 2
\* longest text given to normalize_output on its own
MaxTextLen == 4

----------------------------------------------------------------------------
(* Text *)

\* Python's None, as a text that is no sequence of characters
None == <<"None">>

UpperLetters == <<"A","B","C","D","E","F","G","H","I","J","K","L","M",
                  "N","O","P","Q","R","S","T","U","V","W","X","Y","Z">>
LowerLetters == <<"a","b","c","d","e","f","g","h","i","j","k","l","m",
                  "n","o","p","q","r","s","t","u","v","w","x","y","z">>
Digits == <<"0","1","2","3","4","5","6","7","8","9">>
Whitespace == {" ", "\n", "\t"}

IndexIn(seq, c) == CHOOSE i \in 1..Len(seq) : seq[i] = c
Occurs(seq, c) == \E i \in 1..Len(seq) : seq[i] = c

\* str.lower() and str.upper(), character by character
LowerChar(c) == IF Occurs(UpperLetters, c) THEN LowerLetters[IndexIn(UpperLetters, c)] ELSE c
UpperChar(c) == IF Occurs(LowerLetters, c) THEN UpperLetters[IndexIn(LowerLetters, c)] ELSE c
lower(s) == [i \in 1..Len(s) |-> LowerChar(s[i])]
upper(s) == [i \in 1..Len(s) |-> UpperChar(s[i])]

\* str.strip(): leading and trailing whitespace removed
RECURSIVE lstrip(_)
lstrip(s) == IF s # <<>> /\ Head(s) \in Whitespace THEN lstrip(Tail(s)) ELSE s
RECURSIVE rstrip(_)
rstrip(s) ==
    IF s # <<>> /\ s[Len(s)] \in Whitespace THEN rstrip(SubSeq(s, 1, Len(s) - 1)) ELSE s
\* a strip that removes one whitespace character at most from each end
strip_once(s) ==
    LET l == IF s # <<>> /\ Head(s) \in Whitespace THEN Tail(s) ELSE s
    IN  IF l # <<>> /\ l[Len(l)] \in Whitespace THEN SubSeq(l, 1, Len(l) - 1) ELSE l

strip(s) == rstrip(lstrip(s))

\* str.isdigit() and int() on a string of decimal digits
isdigit(s) == s # <<>> /\ \A i \in 1..Len(s) : Occurs(Digits, s[i])
RECURSIVE int(_)
int(s) ==
    IF s = <<>> THEN 0
    ELSE 10 * int(SubSeq(s, 1, Len(s) - 1)) + (IndexIn(Digits, s[Len(s)]) - 1)

\* str.endswith(suffix)
endswith(s, suffix) ==
    /\ Len(s) >= Len(suffix)
    /\ SubSeq(s, Len(s) - Len(suffix) + 1, Len(s)) = suffix

\* str.splitlines(): no final empty line after a trailing newline
RECURSIVE splitlines(_)
splitlines(s) ==
    IF s = <<>> THEN <<>>
    ELSE IF Occurs(s, "\n")
         THEN LET i == CHOOSE k \in 1..Len(s) :
                          s[k] = "\n" /\ \A j \in 1..(k - 1) : s[j] # "\n"
              IN  <<SubSeq(s, 1, i - 1)>> \o splitlines(SubSeq(s, i + 1, Len(s)))
         ELSE <<s>>

\* the list comprehension [f(x) for x in xs if keep(x)] with f = strip, keep = non-empty
RECURSIVE StrippedNonEmpty(_)
StrippedNonEmpty(lines) ==
    IF lines = <<>> THEN <<>>
    ELSE (IF strip(Head(lines)) # <<>> THEN <<strip(Head(lines))>> ELSE <<>>)
         \o StrippedNonEmpty(Tail(lines))

normalize_output(text) == StrippedNonEmpty(splitlines(strip(text)))

Range(seq) == {seq[i] : i \in 1..Len(seq)}

----------------------------------------------------------------------------
(* What is on disk: the exercise catalogue, the solutions a user may stage *)

\* level directories under TASKS_DIR; LV0 holds no exercise directory
LV1 == <<"l","v","1">>
LV2 == <<"L","v","2">>
LV0 == <<"l","v","0">>

\* os.listdir(TASKS_DIR) filtered by isdir, in listing order: an empty task root or three levels
TaskRoots == {<<>>, <<LV1, LV2, LV0>>}

\* exercise directories of a level
Exercises(level) ==
    IF level = LV1 THEN {<<"1">>, <<"2">>}
    ELSE IF level = LV2 THEN {<<"1">>}
    ELSE {}

\* the exercises that have no <exercise>/output/output.txt
NoOutputFile == {<<LV1, <<"2">>>>}

\* an expected output taken to exist for every exercise
HasExpectedAlways(level, exercise) == TRUE

\* os.path.isfile(expected_output_file)
HasExpected(level, exercise) == <<level, exercise>> \notin NoOutputFile

\* the text of <exercise>/output/output.txt
ExpectedText(level, exercise) ==
    IF level = LV1 THEN <<"a","\n","b","\n">> ELSE <<" ","b","\n","\n","a","\n">>

\* entries a user may put in SOLUTIONS_DIR
GoodCpp  == <<"g",".","c","p","p">>     \* compiles; prints a, a blank line, b
BrokenC  == <<"x",".","c">>             \* does not compile
NotesTxt == <<"n",".","t","x","t">>     \* not a solution
DirC     == <<"d",".","c">>             \* a subdirectory whose name ends in .c
StageNames == {GoodCpp, BrokenC, NotesTxt, DirC}
ProgramOut == <<"p","r","o","g","r","a","m",".","o","u","t">>

\* os.path.isfile
isfile(entry) == entry # DirC

\* the toolchain on a solution file: CompletedProcess / CalledProcessError fields
Compile(file) ==
    IF file = BrokenC
    THEN [returncode |-> 1, stdout |-> <<"i">>, stderr |-> <<"e","r","r">>]
    ELSE [returncode |-> 0, stdout |-> <<>>, stderr |-> <<>>]

\* stdout of the executable built from a solution file
ProgramStdout(file) ==
    IF file = GoodCpp THEN <<"a","\n","\n","b"," ","\n">> ELSE <<>>

\* what the machine may do to one call of the pipeline: nothing, the toolchain cannot
\* be launched, the built executable cannot be launched, os.listdir(level_dir) raises
Faults == {"none", "no_toolchain", "no_exec", "unreadable_level"}

\* lines a user may type
InputLines == {
    <<>>,
    <<"N","E","W">>,
    <<"N","e","w","N","e","w">>,
    <<" ","e","x","i","t">>,
    <<"1">>,
    <<"3">>,
    <<"l","v","2">>,
    <<"f","o","o">> }

----------------------------------------------------------------------------
(* Workspace *)

Files(entries) == {e \in entries : isfile(e)}

\* a clear_folder that deletes nothing
clear_folder_keeps_files(exists, entries) == entries

\* a clear_folder that deletes subdirectories too
clear_folder_removes_all(exists, entries) == {}

clear_folder(exists, entries) ==
    IF exists THEN {e \in entries : ~isfile(e)} ELSE entries

\* clear_folder(TRACE_DIR): TRACE_DIR holds files [name, content] and always exists
clear_traces(trs) == {t \in trs : t.name \in clear_folder(TRUE, {u.name : u \in trs})}

\* a write that leaves the new file alone in the directory
WriteFileAlone(dir, name, content) == {[name |-> name, content |-> content]}

\* open(path, "w") and write: a file of that name is replaced
WriteFile(dir, name, content) ==
    {f \in dir : f.name # name} \cup {[name |-> name, content |-> content]}

\* str(n) for n >= 0
RECURSIVE Decimal(_)
Decimal(n) ==
    IF n < 10 THEN <<Digits[n + 1]>> ELSE Decimal(n \div 10) \o <<Digits[(n % 10) + 1]>>

\* datetime.now().strftime("%Y%m%d_%H%M%S"): the clock cut to whole seconds, in digits
Timestamp(t) == Decimal(t \div TicksPerSecond)

\* "\n".join(lines)
RECURSIVE join(_)
join(lines) ==
    IF lines = <<>> THEN <<>>
    ELSE IF Len(lines) = 1 THEN Head(lines)
    ELSE Head(lines) \o <<"\n">> \o join(Tail(lines))

CompileTag == <<"_","c","o","m","p","i","l","e","_">>
TraceTag   == <<"_","t","r","a","c","e","_">>
DotTxt     == <<".","t","x","t">>
DotC       == <<".","c">>
DotCpp     == <<".","c","p","p">>

\* f"{level}_{exercise}"
Subject(level, exercise) == level \o <<"_">> \o exercise

----------------------------------------------------------------------------
(* The pipeline: run_and_check and test_subject *)

\* what one call of test_subject did and left behind
Result(outcome, exercise, b, t, invoked, executed, compared, wrote) ==
    [outcome |-> outcome, exercise |-> exercise, build |-> b, traces |-> t,
     invoked |-> invoked, executed |-> executed, compared |-> compared, wrote |-> wrote]

\* the trace written on a mismatch
MismatchTrace(subject, ts, norm_expected, norm_actual) ==
    [name    |-> subject \o TraceTag \o ts \o DotTxt,
     content |-> [header |-> "Output mismatch", first |-> join(norm_expected),
                  second |-> join(norm_actual)]]

\* a comparison of the raw texts
OutputsEqualRaw(actual_output, expected_output) == actual_output = expected_output

\* a comparison of the two sets of lines, whatever their order
OutputsEqualUnordered(actual_output, expected_output) ==
    Range(normalize_output(actual_output)) = Range(normalize_output(expected_output))

\* the comparison of run_and_check
OutputsEqual(actual_output, expected_output) ==
    normalize_output(actual_output) = normalize_output(expected_output)

\* run_and_check from the captured stdout on, when the expected-output file
\* exists and holds expected_text: the verdict and the mismatch trace
check_output(stdout, expected_text, subject, trs, ts) ==
    LET actual_output   == strip(stdout)
        expected_output == strip(expected_text)
        norm_actual     == normalize_output(actual_output)
        norm_expected   == normalize_output(expected_output)
    IN  IF OutputsEqual(actual_output, expected_output)
        THEN [outcome |-> "match", traces |-> trs,
              executed |-> TRUE, compared |-> TRUE, wrote |-> FALSE]
        ELSE LET tr == MismatchTrace(subject, ts, norm_expected, norm_actual)
             IN  [outcome |-> "mismatch",
                  traces |-> WriteFile(trs, tr.name, tr.content),
                  executed |-> TRUE, compared |-> TRUE, wrote |-> TRUE]

\* run_and_check(exe_file, expected_output_file, subject), exe_file built from src;
\* the part of a Result it decides: outcome, traces, executed, compared, wrote
run_and_check(src, level, exercise, trs, ts, fault) ==
    IF fault = "no_exec"
    THEN [outcome |-> "crash", traces |-> trs,
          executed |-> FALSE, compared |-> FALSE, wrote |-> FALSE]
    ELSE IF HasExpected(level, exercise)
         THEN check_output(ProgramStdout(src), ExpectedText(level, exercise),
                           Subject(level, exercise), trs, ts)
         ELSE [outcome |-> "no_expected", traces |-> trs,
               executed |-> TRUE, compared |-> FALSE, wrote |-> FALSE]

\* a compile trace without the toolchain's stdout
CompileTraceStderrOnly(level, exercise, ts, e) ==
    [name    |-> Subject(level, exercise) \o CompileTag \o ts \o DotTxt,
     content |-> [header |-> "Compiler", first |-> <<>>, second |-> e.stderr]]

\* the trace written when the toolchain exits non-zero
CompileTrace(level, exercise, ts, e) ==
    [name    |-> Subject(level, exercise) \o CompileTag \o ts \o DotTxt,
     content |-> [header |-> "Compiler", first |-> e.stdout, second |-> e.stderr]]

\* only an empty staging area refused
AtLeastOne(solution_files) == Cardinality(solution_files) >= 1

\* len(solution_files) != 1 is the configuration error
ExactlyOne(solution_files) == Cardinality(solution_files) = 1

\* a pipeline without the check for an empty level
NoExercisesNever(level) == FALSE

\* if not exercises
NoExercises(level) == Exercises(level) = {}

\* test_subject(level), with exercise the value random.choice returns and fault what
\* the machine does to this call
test_subject(level, exercise, fault) ==
    IF fault = "unreadable_level"
    THEN Result("crash", None, build, traces, FALSE, FALSE, FALSE, FALSE)
    ELSE IF NoExercises(level)
    THEN Result("no_exercises", None, build, traces, FALSE, FALSE, FALSE, FALSE)
    ELSE
    LET b1 == clear_folder(TRUE, build)
        solution_files == {f \in solutions : endswith(f, DotC) \/ endswith(f, DotCpp)}
        ts == Timestamp(clock)
    IN
    IF ~env.staging
    THEN Result("crash", exercise, b1, traces, FALSE, FALSE, FALSE, FALSE)
    ELSE IF ~ExactlyOne(solution_files)
    THEN Result("config_error", exercise, b1, traces, FALSE, FALSE, FALSE, FALSE)
    ELSE
    LET file == CHOOSE f \in solution_files : TRUE
        b2 == b1 \cup {file}
        e  == Compile(file)
    IN
    IF ~isfile(file)
    THEN Result("crash", exercise, b1, traces, FALSE, FALSE, FALSE, FALSE)
    ELSE IF fault = "no_toolchain"
    THEN Result("crash", exercise, b2, traces, FALSE, FALSE, FALSE, FALSE)
    ELSE IF e.returncode # 0
    THEN LET tr == CompileTrace(level, exercise, ts, e)
         IN  Result("compile_failed", exercise, b2,
                    WriteFile(traces, tr.name, tr.content), TRUE, FALSE, FALSE, TRUE)
    ELSE LET rc == run_and_check(file, level, exercise, traces, ts, fault)
         IN  Result(rc.outcome, exercise, b2 \cup {ProgramOut}, rc.traces,
                    TRUE, rc.executed, rc.compared, rc.wrote)

----------------------------------------------------------------------------
(* The session controller: the while True loop of __main__ *)

\* the words the two dispatches compare the input with
WordEXIT   == <<"E","X","I","T">>
WordNEW    == <<"N","E","W">>
WordExit   == <<"e","x","i","t">>
WordNew    == <<"n","e","w">>
WordNewNew == <<"n","e","w","n","e","w">>

\* the line of a step that reads no input
NoLine == <<"no input">>

\* the record of a step that called test_subject(level) and got r
RunEvent(cmd, line, level, r) ==
    [cmd |-> cmd, line |-> line, level |-> level, runs |-> 1,
     outcome |-> r.outcome, exercise |-> r.exercise, invoked |-> r.invoked,
     executed |-> r.executed, compared |-> r.compared, wrote |-> r.wrote,
     ts |-> Timestamp(clock), removed |-> 0]

\* the record of a step that did not call test_subject
PlainEvent(cmd, line) ==
    [cmd |-> cmd, line |-> line, level |-> None, runs |-> 0,
     outcome |-> "none", exercise |-> None, invoked |-> FALSE,
     executed |-> FALSE, compared |-> FALSE, wrote |-> FALSE, ts |-> <<>>,
     removed |-> 0]

\* a configuration error ending the loop as an exception does
AfterRunFatalConfig(r) ==
    IF r.outcome = "crash" THEN "crashed"
    ELSE IF r.outcome \in {"config_error", "no_exercises"} THEN "done"
    ELSE "prompt"

\* where the loop is after test_subject returned r, or raised
AfterRun(r) == IF r.outcome = "crash" THEN "crashed" ELSE "prompt"

IsFailure(r) == r.outcome \in {"compile_failed", "mismatch"}

\* the exercises of the first level offered for every level
ChoicesOfFirstLevel(level) == IF Exercises(level) = {} THEN {None} ELSE Exercises(LV1)

\* random.choice(exercises) when there are any
Choices(level) == IF Exercises(level) = {} THEN {None} ELSE Exercises(level)

\* the loop going on to its prompt without the call
CallSkipped(cmd, line, level) ==
    /\ clock < MaxClock
    /\ pc' = "prompt"
    /\ event' = [PlainEvent(cmd, line) EXCEPT !.level = level]
    /\ clock' = clock + 1
    /\ UNCHANGED <<env, solutions, build, traces, failures>>

\* a call test_subject(level) from the loop, and the return to the loop
CallTestSubject(cmd, line, level) ==
    /\ clock < MaxClock
    /\ \E exercise \in Choices(level), fault \in Faults :
          LET r == test_subject(level, exercise, fault) IN
          /\ build' = r.build
          /\ traces' = r.traces
          /\ failures' = IF IsFailure(r) THEN failures + 1 ELSE failures
          /\ pc' = AfterRun(r)
          /\ event' = RunEvent(cmd, line, level, r)
    /\ clock' = clock + 1
    /\ UNCHANGED <<env, solutions>>

\* files the three clear_folder calls delete
Removed ==
    Cardinality(solutions \ clear_folder(env.staging, solutions))
    + Cardinality(traces \ clear_traces(traces))
    + Cardinality(build \ clear_folder(TRUE, build))

\* the three clear_folder calls of the EXIT and NEW branches
ClearWorkspace ==
    /\ solutions' = clear_folder(env.staging, solutions)
    /\ traces' = clear_traces(traces)
    /\ build' = clear_folder(TRUE, build)
    /\ failures' = 0

\* the EXIT branch: clear the workspace and break
ExitBranch(line) ==
    /\ ClearWorkspace
    /\ pc' = "done"
    /\ event' = [PlainEvent("exit", line) EXCEPT !.removed = Removed]
    /\ UNCHANGED <<env, current_level, clock>>

(* grademe_version1.py *)

\* loop head with current_difficulty None: break without levels, else random.choice
V1PickLevel ==
    /\ env.variant = 1
    /\ pc = "select"
    /\ IF env.levels = <<>>
       THEN /\ pc' = "done"
            /\ event' = PlainEvent("no_levels", NoLine)
            /\ UNCHANGED current_level
       ELSE \E lvl \in Range(env.levels) :
               /\ current_level' = lvl
               /\ pc' = "prompt"
               /\ event' = [PlainEvent("level_chosen", NoLine) EXCEPT !.level = lvl]
    /\ UNCHANGED <<env, solutions, build, traces, clock, failures>>

\* input() and the dispatch on it
V1Command(line) ==
    /\ env.variant = 1
    /\ pc = "prompt"
    /\ LET user_input == strip(line) IN
       IF upper(user_input) = WordEXIT
       THEN ExitBranch(line)
       ELSE IF upper(user_input) = WordNEW
       THEN /\ ClearWorkspace
            /\ current_level' = None
            /\ pc' = "select"
            /\ event' = [PlainEvent("change_level", line) EXCEPT !.removed = Removed]
            /\ UNCHANGED <<env, clock>>
       ELSE /\ CallTestSubject("retest", line, current_level)
            /\ UNCHANGED current_level

(* grademe_version6.py *)

\* loop head with current_level None and no level directory: break
V6NoLevels ==
    /\ env.variant = 6
    /\ pc = "select"
    /\ env.levels = <<>>
    /\ pc' = "done"
    /\ event' = PlainEvent("no_levels", NoLine)
    /\ UNCHANGED <<env, current_level, solutions, build, traces, clock, failures>>

\* the typed name taken as the level
TypedName(levels, choice) == choice

\* next(lvl for lvl in levels if lvl.lower() == choice)
FirstNamed(levels, choice) ==
    levels[CHOOSE i \in 1..Len(levels) :
              /\ lower(levels[i]) = choice
              /\ \A j \in 1..(i - 1) : lower(levels[j]) # choice]

\* loop head with current_level None: the level prompt, then the first test_subject
V6LevelPrompt(line) ==
    /\ env.variant = 6
    /\ pc = "select"
    /\ env.levels # <<>>
    /\ LET levels == env.levels
           choice == lower(strip(line))
       IN
       IF upper(choice) = WordEXIT
       THEN ExitBranch(line)
       ELSE IF isdigit(choice) /\ 1 <= int(choice) /\ int(choice) <= Len(levels)
       THEN /\ current_level' = levels[int(choice)]
            /\ CallTestSubject("level_chosen", line, levels[int(choice)])
       ELSE IF choice \in {lower(lvl) : lvl \in Range(levels)}
       THEN /\ current_level' = FirstNamed(levels, choice)
            /\ CallTestSubject("level_chosen", line, FirstNamed(levels, choice))
       ELSE /\ event' = PlainEvent("invalid", line)
            /\ UNCHANGED <<env, current_level, pc, solutions, build, traces,
                           clock, failures>>

\* the action prompt and the dispatch on it
V6Command(line) ==
    /\ env.variant = 6
    /\ pc = "prompt"
    /\ LET user_input == lower(strip(line)) IN
       IF user_input = <<>>
       THEN /\ CallTestSubject("retest", line, current_level)
            /\ UNCHANGED current_level
       ELSE IF user_input = WordNew
       THEN /\ CallTestSubject("retest", line, current_level)
            /\ UNCHANGED current_level
       ELSE IF user_input = WordNewNew
       THEN /\ current_level' = None
            /\ pc' = "select"
            /\ event' = PlainEvent("change_level", line)
            /\ UNCHANGED <<env, solutions, build, traces, clock, failures>>
       ELSE IF user_input = WordExit
       THEN ExitBranch(line)
       ELSE /\ event' = PlainEvent("invalid", line)
            /\ UNCHANGED <<env, current_level, pc, solutions, build, traces,
                           clock, failures>>

(* The user and the clock, while the process runs *)

Running == pc \in {"select", "prompt"}

UserStage(f) ==
    /\ Running
    /\ env.staging
    /\ f \notin solutions
    /\ Cardinality(solutions) < MaxStaged
    /\ solutions' = solutions \cup {f}
    /\ event' = PlainEvent("user", NoLine)
    /\ UNCHANGED <<env, current_level, pc, build, traces, clock, failures>>

UserUnstage(f) ==
    /\ Running
    /\ f \in solutions
    /\ solutions' = solutions \ {f}
    /\ event' = PlainEvent("user", NoLine)
    /\ UNCHANGED <<env, current_level, pc, build, traces, clock, failures>>

Tick ==
    /\ Running
    /\ clock < MaxClock
    /\ clock' = clock + 1
    /\ event' = PlainEvent("user", NoLine)
    /\ UNCHANGED <<env, current_level, pc, solutions, build, traces, failures>>

----------------------------------------------------------------------------
(* The specification *)

\* after the imports: BUILD_DIR and TRACE_DIR made, current level None
Init ==
    /\ env \in [variant : {1, 6}, levels : TaskRoots, staging : BOOLEAN]
    /\ current_level = None
    /\ pc = "select"
    /\ solutions = {}
    /\ build = {}
    /\ traces = {}
    /\ clock = 0
    /\ failures = 0
    /\ event = PlainEvent("init", NoLine)

Next ==
    \/ V1PickLevel
    \/ \E line \in InputLines : V1Command(line)
    \/ V6NoLevels
    \/ \E line \in InputLines : V6LevelPrompt(line)
    \/ \E line \in InputLines : V6Command(line)
    \/ \E f \in StageNames : UserStage(f)
    \/ \E f \in StageNames : UserUnstage(f)
    \/ Tick

Spec == Init /\ [][Next]_vars

----------------------------------------------------------------------------
(* The workspace reset on its own: the three clear_folder calls applied to any
   contents of the three directories *)

\* what BUILD_DIR may hold: a copied solution, the executable, a subdirectory
BuildEntries == {GoodCpp, ProgramOut, DirC}

\* what TRACE_DIR may hold: a compile trace and a mismatch trace
TraceFiles ==
    LET c == CompileTrace(LV1, <<"1">>, Timestamp(0), Compile(BrokenC))
        m == MismatchTrace(Subject(LV2, <<"1">>), Timestamp(0), <<<<"b">>, <<"a">>>>,
                           <<<<"a">>, <<"b">>>>)
    IN  {[name |-> c.name, content |-> c.content], [name |-> m.name, content |-> m.content]}

InitReset ==
    /\ env \in [variant : {1, 6}, levels : {<<LV1, LV2, LV0>>}, staging : BOOLEAN]
    /\ current_level = LV1
    /\ pc = "prompt"
    /\ solutions \in (IF env.staging THEN SUBSET StageNames ELSE {{}})
    /\ build \in SUBSET BuildEntries
    /\ traces \in SUBSET TraceFiles
    /\ clock = 0
    /\ failures = Cardinality(traces)
    /\ event = PlainEvent("init", NoLine)

\* clear_folder(SOLUTIONS_DIR); clear_folder(TRACE_DIR); clear_folder(BUILD_DIR)
ResetAll ==
    /\ ClearWorkspace
    /\ event' = [PlainEvent("reset", NoLine) EXCEPT !.removed = Removed]
    /\ UNCHANGED <<env, current_level, pc, clock>>

NextReset == ResetAll

SpecReset == InitReset /\ [][NextReset]_vars

----------------------------------------------------------------------------
(* normalize_output and the comparison on their own: normalize_output applied to
   any short text and again to its own result joined with newlines; any short
   text as a program's output compared with an expected output *)

\* characters of a text: two letters, a space, a newline, a tab
TextAlphabet == {"a", "b", " ", "\n", "\t"}

Texts == UNION {[1..n -> TextAlphabet] : n \in 0..MaxTextLen}

\* a text x and the list normalize_output(x); prev is the list x was joined from
TextEvent(n, text, prev) ==
    [cmd |-> "normalize", applied |-> n, line |-> text,
     lines |-> normalize_output(text), prev |-> prev]

InitText ==
    /\ env = [variant |-> 6, levels |-> <<LV1, LV2, LV0>>, staging |-> TRUE]
    /\ current_level = None
    /\ pc = "select"
    /\ solutions = {}
    /\ build = {}
    /\ traces = {}
    /\ clock = 0
    /\ failures = 0
    /\ \E x \in Texts :
          event = [cmd |-> "text", applied |-> 0, line |-> x, lines |-> <<>>, prev |-> <<>>]

\* normalize_output(x)
NormalizeText ==
    /\ event.cmd = "text"
    /\ event' = TextEvent(1, event.line, <<>>)
    /\ UNCHANGED <<env, current_level, pc, solutions, build, traces, clock, failures>>

\* normalize_output("\n".join(normalize_output(x)))
NormalizeAgain ==
    /\ event.cmd = "normalize"
    /\ event.applied = 1
    /\ event' = TextEvent(2, join(event.lines), event.lines)
    /\ UNCHANGED <<env, current_level, pc, solutions, build, traces, clock, failures>>

\* contents of an expected-output file
ExpectedTexts ==
    {<<>>, <<"a">>, <<"a", "\n", "b">>, <<"b", "\n", "a">>,
     <<" ", "a", " ", "\n", "\n", "\t", "b", "\n">>}

\* run_and_check once the program has printed the text, output.txt holding expected
CompareTexts ==
    /\ event.cmd = "text"
    /\ \E expected \in ExpectedTexts :
          LET r == check_output(event.line, expected, Subject(LV1, <<"1">>), traces,
                                Timestamp(clock))
          IN  /\ traces' = r.traces
              /\ failures' = failures + (IF r.outcome = "mismatch" THEN 1 ELSE 0)
              /\ event' = [cmd |-> "compare", applied |-> 0, line |-> event.line,
                           lines |-> <<>>, prev |-> <<>>, expected |-> expected,
                           outcome |-> r.outcome, wrote |-> r.wrote]
    /\ UNCHANGED <<env, current_level, pc, solutions, build, clock>>

NextText ==
    \/ NormalizeText
    \/ NormalizeAgain
    \/ CompareTexts

SpecText == InitText /\ [][NextText]_vars

----------------------------------------------------------------------------
(* Properties of the session controller and the pipeline *)

NoFilesLeft == Files(solutions) = {} /\ Files(build) = {} /\ traces = {}

\* entries of the staging area that are files with a recognized extension
RecognizedFiles == {f \in Files(solutions) : endswith(f, DotC) \/ endswith(f, DotCpp)}

\* the level a line names at the level prompt of grademe_version6.py
IsLevelChoice(line) ==
    LET w == lower(strip(line)) IN
    \/ isdigit(w) /\ 1 <= int(w) /\ int(w) <= Len(env.levels)
    \/ w \in {lower(lvl) : lvl \in Range(env.levels)}

\* a line that is no command of either variant and names no level
Unrecognized(line) ==
    /\ line \in InputLines
    /\ lower(strip(line)) \notin {<<>>, WordNew, WordNewNew, WordExit}
    /\ ~IsLevelChoice(line)

\* C1: in both variants the change-level command clears the files of the staging,
\* build and trace directories and leaves the session with no level selected.
C1_ChangeLevelClearsWorkspace ==
    event.cmd = "change_level" =>
        /\ current_level = None
        /\ pc = "select"
        /\ NoFilesLeft

\* C2: in both variants an input line that is no recognized command causes no
\* transition: the level and the loop position are unchanged, no pipeline run is
\* started and none of the three directories is modified.
C2_UnrecognizedInputChangesNothing ==
    [][Unrecognized(event'.line) =>
          /\ event'.runs = 0
          /\ UNCHANGED <<current_level, pc, solutions, build, traces>>]_vars

\* C3: at every prompt the exit command clears the files of the three directories
\* and ends the process without another pipeline run; a terminal state reached
\* through exit has no file in any of the three directories.
C3_ExitClearsAndEnds ==
    event.cmd = "exit" =>
        /\ pc = "done"
        /\ event.runs = 0
        /\ NoFilesLeft

C3_Witness ==
    /\ event.cmd = "exit"
    /\ pc = "done"
    /\ event.removed >= 3
    /\ current_level # None

\* C4 as stated: after every configuration error (zero or several solution files,
\* a level without exercises, no level directory) the level is what it was and the
\* process goes on to read the next command.
C4_ConfigErrorKeepsSessionRunning ==
    (event.outcome \in {"config_error", "no_exercises"} \/ event.cmd = "no_levels") =>
        /\ Running
        /\ current_level = event.level

\* C4 amended: after zero or several solution files, or a level without exercises,
\* the level is what it was and the loop is at its prompt; with no level directory
\* the level is still None and the loop has ended.
C4_ConfigErrorAmended ==
    /\ event.outcome \in {"config_error", "no_exercises"} =>
          /\ pc = "prompt"
          /\ current_level = event.level
    /\ event.cmd = "no_levels" =>
          /\ pc = "done"
          /\ current_level = None

C4_Witness ==
    /\ event.outcome = "config_error"
    /\ Cardinality(RecognizedFiles) = 2
    /\ pc = "prompt"

\* C5: no failure during a round ends the session: after every call of the pipeline
\* the controller is back at its prompt with the level unchanged.
C5_RoundFailureStaysInLoop ==
    event.runs = 1 =>
        /\ pc = "prompt"
        /\ current_level = event.level

\* C6: a run on a level with an exercise, with zero or several recognized solution
\* files staged, invokes no toolchain, executes nothing, writes no trace, leaves no
\* file in the build directory, and returns as a configuration error.
C6_MiscountedSolutionsBuildNothing ==
    (event.runs = 1 /\ event.exercise # None /\ Cardinality(RecognizedFiles) # 1) =>
        /\ ~event.invoked
        /\ ~event.executed
        /\ ~event.wrote
        /\ Files(build) = {}
        /\ pc = "prompt" => event.outcome = "config_error"

C6_Witness ==
    /\ event.outcome = "config_error"
    /\ RecognizedFiles = {}
    /\ NotesTxt \in solutions
    /\ traces # {}

\* C7: when the toolchain exits non-zero the executable is not run, no comparison
\* is made, a compile trace named by level, exercise and timestamp and holding the
\* toolchain's stdout and stderr is in the trace directory, and the session is at
\* its prompt with the level unchanged.
C7_CompileFailureTraced ==
    event.outcome = "compile_failed" =>
        /\ ~event.executed
        /\ ~event.compared
        /\ ProgramOut \notin build
        /\ \E file \in RecognizedFiles, t \in traces :
              /\ Compile(file).returncode # 0
              /\ t.name = event.level \o <<"_">> \o event.exercise \o CompileTag
                          \o event.ts \o DotTxt
              /\ t.content.first = Compile(file).stdout
              /\ t.content.second = Compile(file).stderr
        /\ pc = "prompt"
        /\ current_level = event.level

C7_Witness ==
    /\ event.outcome = "compile_failed"
    /\ event.level = LV1
    /\ event.exercise = <<"2">>
    /\ Cardinality(traces) = 2

\* C8: the number of files in the trace directory equals the number of compile
\* failures and mismatches since the directory was last cleared.
C8_OneTraceFilePerFailure == Cardinality(traces) = failures

\* C9: a run whose toolchain exits 0 and whose program output has the normalized
\* lines of the expected output ends in Match and leaves the set of trace files as
\* it was.
C9_MatchWritesNoTrace ==
    [][(/\ event'.runs = 1
        /\ event'.invoked
        /\ event'.executed
        /\ \E file \in RecognizedFiles :
              /\ Compile(file).returncode = 0
              /\ HasExpected(event'.level, event'.exercise)
              /\ normalize_output(ProgramStdout(file))
                    = normalize_output(ExpectedText(event'.level, event'.exercise)))
       => (/\ event'.outcome = "match"
           /\ ~event'.wrote
           /\ traces' = traces)]_vars

C9_Witness ==
    /\ event.outcome = "match"
    /\ traces # {}
    /\ Cardinality(solutions) = 2

\* C10 as stated: in both variants the step that selects a level performs one
\* pipeline run for it before any further command is read.
C10_SelectionRunsAtOnce ==
    event.cmd = "level_chosen" =>
        /\ current_level = event.level
        /\ event.runs = 1

\* C10 amended: the step that selects a level leaves it as the current level, one
\* of the listed levels; in grademe_version6.py the same step calls the pipeline
\* once for that level (an exercise is picked when the level has any), in
\* grademe_version1.py it calls nothing and the loop goes to read a command.
C10_SelectionAmended ==
    event.cmd = "level_chosen" =>
        /\ current_level = event.level
        /\ current_level \in Range(env.levels)
        /\ env.variant = 6 =>
              /\ event.runs = 1
              /\ pc \in {"prompt", "crashed"}
              /\ event.exercise # None => event.exercise \in Exercises(current_level)
              /\ (pc = "prompt" /\ Exercises(current_level) # {}) => event.exercise # None
        /\ env.variant = 1 =>
              /\ event.runs = 0
              /\ pc = "prompt"

C10_Witness ==
    /\ env.variant = 6
    /\ event.cmd = "level_chosen"
    /\ current_level = LV2
    /\ event.outcome = "mismatch"

\* a line that is the retest command at the action prompt
RetestLine(line) ==
    /\ line \in InputLines
    /\ \/ strip(line) = <<>>
       \/ env.variant = 6 /\ lower(strip(line)) = WordNew

\* C11: with a level selected, the retest command (empty input; also "new" in
\* grademe_version6.py) keeps the level, calls the pipeline once for it with an
\* exercise of that level, and removes nothing from the staging or trace
\* directories.
C11_RetestKeepsLevel ==
    [][(pc = "prompt" /\ RetestLine(event'.line)) =>
          /\ current_level # None
          /\ current_level' = current_level
          /\ event'.runs = 1
          /\ event'.level = current_level
          /\ (pc' = "prompt" /\ Exercises(current_level) # {}) =>
                event'.exercise \in Exercises(current_level)
          /\ solutions' = solutions
          /\ \A t \in traces : \E u \in traces' : u.name = t.name]_vars

C11_Witness ==
    /\ event.cmd = "retest"
    /\ event.line = <<>>
    /\ event.outcome = "match"
    /\ event.exercise = <<"1">>
    /\ traces # {}
    /\ NotesTxt \in solutions

\* C12: when the build succeeds and the exercise has no expected-output file, the
\* executable is run, no comparison is made (neither Match nor Mismatch) and no
\* trace is written.
C12_NoExpectedNoVerdict ==
    (/\ event.runs = 1
     /\ event.invoked
     /\ pc = "prompt"
     /\ <<event.level, event.exercise>> \in NoOutputFile
     /\ \E file \in RecognizedFiles : Compile(file).returncode = 0)
    => (/\ event.executed
        /\ event.outcome = "no_expected"
        /\ ~event.compared
        /\ ~event.wrote)

C12_Witness ==
    /\ event.outcome = "no_expected"
    /\ event.executed
    /\ traces # {}

\* every trace file of the step's first state is in its second state, by name
TraceNamesKept == \A t \in traces : \E u \in traces' : u.name = t.name

\* C16: a pipeline run changes nothing in the staging directory and deletes no
\* trace file; a step of the program that removes a staged file or a trace file is
\* the change-level or the exit command, and it calls no pipeline.
C16_RunLeavesStagingAndTraces ==
    [][/\ event'.runs = 1 => (solutions' = solutions /\ TraceNamesKept)
       /\ (event'.cmd # "user" /\ (~TraceNamesKept \/ ~(solutions \subseteq solutions')))
             => (event'.cmd \in {"exit", "change_level"} /\ event'.runs = 0)]_vars

C16_Witness ==
    /\ event.runs = 1
    /\ event.outcome = "config_error"
    /\ Cardinality(traces) = 2
    /\ solutions = {GoodCpp, BrokenC}

\* C17: a run on a level without exercise directories reports "no exercises" and
\* stops before the build directory is cleared, the staging area scanned or a
\* toolchain invoked: the three directories are as they were and the session is at
\* its prompt with the same level.
C17_EmptyLevelTouchesNothing ==
    [][(event'.runs = 1 /\ Exercises(event'.level) = {} /\ pc' # "crashed") =>
          /\ event'.outcome = "no_exercises"
          /\ ~event'.invoked
          /\ UNCHANGED <<solutions, build, traces>>
          /\ pc' = "prompt"
          /\ current_level' = event'.level]_vars

C17_Witness ==
    /\ event.outcome = "no_exercises"
    /\ current_level = LV0
    /\ ProgramOut \in build
    /\ traces # {}

\* C18: the executable a round runs is the one that round built from the staged
\* solution, and a program.out in the build directory after a round was built by
\* that round.
C18_NoStaleExecutable ==
    (event.runs = 1 /\ pc = "prompt") =>
        /\ event.executed => (event.invoked /\ ProgramOut \in build)
        /\ ProgramOut \in build =>
              /\ event.invoked
              /\ \E file \in RecognizedFiles :
                    file \in build /\ Compile(file).returncode = 0

\* C19: the pipeline is only called with a level selected, one of the listed level
\* directories; the change-level command, an invalid choice and an empty task root
\* call nothing.
C19_RunOnlyWithLevel ==
    /\ event.runs = 1 =>
          /\ event.level # None
          /\ event.level \in Range(env.levels)
          /\ current_level = event.level
    /\ event.cmd \in {"change_level", "invalid", "no_levels", "exit"} => event.runs = 0
    /\ current_level = None => event.runs = 0

C19_Witness ==
    /\ env.variant = 6
    /\ event.runs = 1
    /\ event.line = <<"l","v","2">>
    /\ current_level = LV2
    /\ event.outcome = "config_error"

\* C13 as stated: after the reset the listing of each of the three directories
\* is empty.
C13_ResetEmptiesListings ==
    event.cmd = "reset" => (solutions = {} /\ build = {} /\ traces = {})

\* C13 amended: the reset leaves no file in any of the three directories and
\* keeps their subdirectories; a staging directory that does not exist stays
\* absent and one that exists stays; a second reset changes nothing.
C13_ResetAmended ==
    [][event'.cmd = "reset" =>
          /\ Files(solutions') = {} /\ Files(build') = {} /\ traces' = {}
          /\ solutions' = solutions \ Files(solutions)
          /\ build' = build \ Files(build)
          /\ env'.staging = env.staging
          /\ ~env.staging => solutions' = {}
          /\ event.cmd = "reset" => UNCHANGED <<solutions, build, traces>>]_vars

C13_Witness ==
    /\ event.cmd = "reset"
    /\ event.removed >= 4
    /\ solutions = {DirC}
    /\ build = {DirC}

\* C14: normalize_output is idempotent: its result joined with newlines and
\* normalized again is the same list of lines.
C14_NormalizeIdempotent ==
    (event.cmd = "normalize" /\ event.applied = 2) => event.lines = event.prev

C14_Witness ==
    /\ event.cmd = "normalize"
    /\ event.applied = 2
    /\ event.prev = <<<<"a">>, <<"b">>>>
    /\ event.lines = event.prev

\* the whitespace-trimmed non-empty lines of a text, in order
TrimmedNonEmptyLines(text) ==
    LET ls == splitlines(text)
        trimmed == [i \in 1..Len(ls) |-> strip(ls[i])]
    IN  SelectSeq(trimmed, LAMBDA l : l # <<>>)

\* C15: with an expected-output file the verdict is Match exactly when the
\* trimmed non-empty lines of the actual output equal, in order, those of the
\* expected output; otherwise it is Mismatch and the trace file written holds
\* both normalized sequences.
C15_MatchIffNormalizedEqual ==
    event.cmd = "compare" =>
        LET want == TrimmedNonEmptyLines(event.expected)
            got  == TrimmedNonEmptyLines(event.line)
        IN  /\ event.outcome \in {"match", "mismatch"}
            /\ event.outcome = "match" <=> got = want
            /\ event.outcome = "match" => (~event.wrote /\ traces = {})
            /\ event.outcome = "mismatch" =>
                   /\ event.wrote
                   /\ \E t \in traces :
                          /\ t.content.first = join(want)
                          /\ t.content.second = join(got)

\* the lines a, b printed where b, a is expected
C15_Witness ==
    /\ event.cmd = "compare"
    /\ event.expected = <<"b", "\n", "a">>
    /\ TrimmedNonEmptyLines(event.line) = <<<<"a">>, <<"b">>>>
    /\ event.line # <<"a", "\n", "b">>
    /\ event.outcome = "mismatch"
    /\ Cardinality(traces) = 1

====
